---- MODULE Spec2Model ----
(***************************************************************************)
(* Model of the mathrs extension module (src/src/lib.rs): the integer      *)
(* family (sum_list, double, double_list), the trigonometric trio (sin,    *)
(* cos, tan), relu and softmax.  Every function is pure; the state of the  *)
(* model is the last call made (its name, its arguments, its outcome) and  *)
(* the build the library was compiled with.                                *)
(***************************************************************************)
EXTENDS Integers, Sequences, FiniteSets, TLC

VARIABLES
    overflow_checks,  \* build profile: TRUE = overflow-checks on (dev/test), FALSE = release
    pc,               \* "idle": the host may call; "returned": an outcome is being handed back
    op,               \* name of the last function called ("none" before any call)
    args,             \* its argument(s)
    ret               \* its outcome: a returned value or a panic

vars == <<overflow_checks, pc, op, args, ret>>

----------------------------------------------------------------------------
(* Bounds of the model *)

\* isize is modelled as a two's-complement integer of IntBits bits.
IntBits == 3
\* longest list handed to sum_list, double_list and softmax
MaxLen == 3
\* angles range over q * (pi/12) for q in -QMax..QMax
QMax == 30
\* ... plus an offset of d grid steps, d in -DMax..DMax
DMax == 12

----------------------------------------------------------------------------
(* isize arithmetic *)

ISIZE_MIN == -(2 ^ (IntBits - 1))
ISIZE_MAX == (2 ^ (IntBits - 1)) - 1
Isize == ISIZE_MIN..ISIZE_MAX

InRange(x) == ISIZE_MIN <= x /\ x <= ISIZE_MAX

\* two's-complement wrap-around of a mathematical integer
Wrap(x) == ((x - ISIZE_MIN) % (2 ^ IntBits)) + ISIZE_MIN

\* outcomes of a call
Value(v) == [kind |-> "value", val |-> v, msg |-> ""]
Panic(m) == [kind |-> "panic", val |-> 0, msg |-> m]

AddOverflow == "attempt to add with overflow"
MulOverflow == "attempt to multiply with overflow"

\* `a + b` on isize: panics under overflow-checks, wraps otherwise
isize_add(a, b) ==
    IF InRange(a + b) THEN Value(a + b)
    ELSE IF overflow_checks THEN Panic(AddOverflow)
    ELSE Value(Wrap(a + b))

\* `a * b` on isize
isize_mul(a, b) ==
    IF InRange(a * b) THEN Value(a * b)
    ELSE IF overflow_checks THEN Panic(MulOverflow)
    ELSE Value(Wrap(a * b))

\* Iterator::sum for isize: fold from 0, left to right, with `+`
RECURSIVE iter_sum(_, _, _)
iter_sum(list, i, acc) ==
    IF i > Len(list) THEN Value(acc)
    ELSE LET r == isize_add(acc, list[i])
         IN  IF r.kind = "panic" THEN r ELSE iter_sum(list, i + 1, r.val)

\* mutant: the fold starts at the second element
sum_list_skip_first(list) == iter_sum(list, 2, 0)

sum_list(list) == iter_sum(list, 1, 0)

double(n) == isize_mul(n, 2)

\* list.iter().map(|x| x * 2).collect(): the first overflowing element panics
RECURSIVE map_double(_, _, _)
map_double(list, i, out) ==
    IF i > Len(list) THEN Value(out)
    ELSE LET r == isize_mul(list[i], 2)
         IN  IF r.kind = "panic" THEN r
             ELSE map_double(list, i + 1, Append(out, r.val))

\* mutant: the result is collected in reverse order
RECURSIVE map_double_rev(_, _, _)
map_double_rev(list, i, out) ==
    IF i > Len(list) THEN Value(out)
    ELSE LET r == isize_mul(list[i], 2)
         IN  IF r.kind = "panic" THEN r
             ELSE map_double_rev(list, i + 1, <<r.val>> \o out)

double_list_reversed(list) == map_double_rev(list, 1, <<>>)

double_list(list) == map_double(list, 1, <<>>)

----------------------------------------------------------------------------
(* f64 values *)

\* An f64 is carried as a decimal floating-point number of Digits significant
\* digits, s * m * 10^e with m = 0 or 10^(Digits-1) <= m < 10^Digits, or as
\* NaN or a signed infinity.  Both signed zeros exist.
Digits == 8
MantMin == 10 ^ (Digits - 1)
MantMax == 10 ^ Digits

Fin(s, m, e) == [k |-> "fin", s |-> s, m |-> m, e |-> e]
NaN == [k |-> "nan", s |-> 1, m |-> 0, e |-> 0]
INFINITY == [k |-> "inf", s |-> 1, m |-> 0, e |-> 0]
NEG_INFINITY == [k |-> "inf", s |-> -1, m |-> 0, e |-> 0]
Zero == Fin(1, 0, 0)
NegZero == Fin(-1, 0, 0)

\* rounding to Digits significant digits
RECURSIVE Norm(_, _, _)
Norm(s, m, e) ==
    IF m = 0 THEN Fin(s, 0, 0)
    ELSE IF m >= MantMax THEN Norm(s, (m + 5) \div 10, e + 1)
    ELSE IF m < MantMin THEN Norm(s, m * 10, e - 1)
    ELSE Fin(s, m, e)

One == Norm(1, 1, 0)
FromInt(i) == IF i < 0 THEN Norm(-1, -i, 0) ELSE Norm(1, i, 0)

IsNaN(x) == x.k = "nan"
IsZero(x) == x.k = "fin" /\ x.m = 0

\* f64::abs
f64_abs(x) == [x EXCEPT !.s = 1]

\* |a| < |b| for values that are not NaN
MagLt(a, b) ==
    IF a.k = "inf" THEN FALSE
    ELSE IF b.k = "inf" THEN TRUE
    ELSE IF a.m = 0 THEN b.m > 0
    ELSE IF b.m = 0 THEN FALSE
    ELSE a.e < b.e \/ (a.e = b.e /\ a.m < b.m)

\* `a < b` on f64: false when either side is NaN, -0.0 and 0.0 compare equal
f64_lt(a, b) ==
    IF IsNaN(a) \/ IsNaN(b) THEN FALSE
    ELSE IF IsZero(a) /\ IsZero(b) THEN FALSE
    ELSE IF a.s # b.s THEN a.s = -1
    ELSE IF a.s = 1 THEN MagLt(a, b)
    ELSE MagLt(b, a)

\* `a > b` on f64
f64_gt(a, b) == f64_lt(b, a)

\* `a + b` on f64, for operands that are not negative (sums of exponentials)
f64_add(a, b) ==
    IF IsNaN(a) \/ IsNaN(b) THEN NaN
    ELSE IF a.k = "inf" \/ b.k = "inf" THEN INFINITY
    ELSE IF a.m = 0 THEN b
    ELSE IF b.m = 0 THEN a
    ELSE LET hi == IF a.e >= b.e THEN a ELSE b
             lo == IF a.e >= b.e THEN b ELSE a
             sh == hi.e - lo.e
             lm == IF sh > Digits THEN 0
                   ELSE (lo.m + ((10 ^ sh) \div 2)) \div (10 ^ sh)
         IN  Norm(1, hi.m + lm, hi.e)

\* floor(num * 10^n / den), one decimal digit at a time
RECURSIVE LongDiv(_, _, _, _)
LongDiv(r, den, n, q) ==
    IF n = 0 THEN q * 10 + (r \div den)
    ELSE LongDiv((r % den) * 10, den, n - 1, q * 10 + (r \div den))

\* `a / b` on f64
f64_div(a, b) ==
    IF IsNaN(a) \/ IsNaN(b) THEN NaN
    ELSE IF a.k = "inf" /\ b.k = "inf" THEN NaN
    ELSE IF IsZero(a) /\ IsZero(b) THEN NaN
    ELSE IF a.k = "inf" \/ IsZero(b) THEN [INFINITY EXCEPT !.s = a.s * b.s]
    ELSE IF b.k = "inf" \/ IsZero(a) THEN Fin(a.s * b.s, 0, 0)
    ELSE Norm(a.s * b.s, LongDiv(a.m, b.m, Digits, 0), a.e - b.e - Digits)

\* f64::exp at the inputs softmax is called with: it overflows to +inf above
\* about 709.78 and underflows to 0.0 below about -745.13
f64_exp(x) ==
    CASE IsNaN(x) -> NaN
      [] x = INFINITY -> INFINITY
      [] x = NEG_INFINITY -> Zero
      [] IsZero(x) -> One
      [] x.k = "fin" /\ f64_lt(FromInt(709), x) -> INFINITY
      [] x.k = "fin" /\ f64_lt(x, FromInt(-745)) -> Zero
      [] x = FromInt(-1) -> Norm(1, 36787944, -8)
      [] x = FromInt(1) -> Norm(1, 27182818, -7)
      [] x = FromInt(2) -> Norm(1, 73890561, -7)
      [] x = FromInt(3) -> Norm(1, 20085537, -6)

----------------------------------------------------------------------------
(* relu and softmax *)

\* mutant: the comparison is the wrong way round
relu_flipped(n) == IF f64_lt(n, Zero) THEN n ELSE Zero

relu(n) == IF f64_gt(n, Zero) THEN n ELSE Zero

\* Iterator::sum for f64: fold from 0.0, left to right
RECURSIVE f64_iter_sum(_, _, _)
f64_iter_sum(list, i, acc) ==
    IF i > Len(list) THEN acc
    ELSE f64_iter_sum(list, i + 1, f64_add(acc, list[i]))

softmax(list) ==
    LET sum == f64_iter_sum([i \in 1..Len(list) |-> f64_exp(list[i])], 1, Zero)
    IN  Value([i \in 1..Len(list) |-> f64_div(f64_exp(list[i]), sum)])

----------------------------------------------------------------------------
(* Angles *)

\* An f64 used as an angle is carried on a grid fine enough to tell EPSILON
\* apart: in radians q * (pi/12) + d * 1e-11, in degrees q * 15 + d * 1e-9.
\* The grid point q * (pi/12) stands for the f64 nearest to it.
Angle(q, d) == [k |-> "fin", q |-> q, d |-> d]
AngleNaN == [k |-> "nan", q |-> 0, d |-> 0]
AngleInf == [k |-> "inf", q |-> 0, d |-> 0]
AngleNegInf == [k |-> "-inf", q |-> 0, d |-> 0]

EPSILON == Norm(1, 1, -10)
HALF_PI == Angle(6, 0)
THREE_HALF_PI == Angle(3 * HALF_PI.q, 3 * HALF_PI.d)

\* x / y rounded to the nearest integer, halves away from zero
RoundDiv(x, y) ==
    IF x >= 0 THEN (2 * x + y) \div (2 * y) ELSE -((y - 2 * x) \div (2 * y))

\* f64::to_radians: n * (pi / 180).  15 degrees are pi/12, and 1e-9 degrees
\* are 1.7453e-11 radians.
to_radians(n) ==
    IF n.k = "fin" THEN Angle(n.q, RoundDiv(n.d * 17453, 10000)) ELSE n

\* `a - b` on angles
angle_sub(a, b) ==
    IF a.k = "fin" /\ b.k = "fin" THEN Angle(a.q - b.q, a.d - b.d) ELSE a

\* f64::abs of an angle, as an f64 value: pi/12 = 0.2617994
angle_abs(a) ==
    CASE a.k = "nan" -> NaN
      [] a.k \in {"inf", "-inf"} -> INFINITY
      [] a.k = "fin" /\ a.q = 0 ->
            Norm(1, IF a.d < 0 THEN -a.d ELSE a.d, -11)
      [] a.k = "fin" /\ a.q # 0 ->
            Norm(1, (IF a.q < 0 THEN -a.q ELSE a.q) * 2617994, -7)

\* pi/2 - FRAC_PI_2 is about 6.1e-17: HalfPiErr units of 1e-17
HalfPiErr == 6

\* For an angle whose q is a multiple of 6 (a multiple of pi/2): the signed
\* distance from the exact multiple of pi/2 to the f64, in units of 1e-17.
Offset(a) == a.d * (10 ^ 6) - HalfPiErr * (a.q \div 6)

\* the f64 of magnitude |x| * 1e-17 and sign sgn
Tiny(sgn, x) == Norm(IF x = 0 THEN 1 ELSE sgn, IF x < 0 THEN -x ELSE x, -17)

Sgn(x) == IF x < 0 THEN -1 ELSE 1

\* sin of 15, 30, 45, 60, 75 and 90 degrees
SinTable ==
    << Norm(1, 25881905, -8), Norm(1, 5, -1), Norm(1, 70710678, -8),
       Norm(1, 86602540, -8), Norm(1, 96592583, -8), One >>

\* tan of 15, 30, 45, 60 and 75 degrees
TanTable ==
    << Norm(1, 26794919, -8), Norm(1, 57735027, -8), One,
       Norm(1, 17320508, -7), Norm(1, 37320508, -7) >>

\* sin at the grid point r * (pi/12), r in 0..23 and not a multiple of 12
SinGrid(r) ==
    LET h == r % 12
        v == SinTable[IF h <= 6 THEN h ELSE 12 - h]
    IN  [v EXCEPT !.s = IF r < 12 THEN 1 ELSE -1]

\* f64::sin: near a multiple of pi, sin(k*pi + x) = (-1)^k * x
f64_sin(a) ==
    IF a.k # "fin" THEN NaN
    ELSE LET r == a.q % 24
             x == Offset(a)
         IN  IF r = 0 THEN Tiny(Sgn(x), x)
             ELSE IF r = 12 THEN Tiny(-Sgn(x), x)
             ELSE SinGrid(r)

\* f64::cos: near an odd multiple of pi/2, cos(j*pi/2 + x) = -sin(j*pi/2) * x
f64_cos(a) ==
    IF a.k # "fin" THEN NaN
    ELSE LET r == a.q % 24
             x == Offset(a)
         IN  IF r = 6 THEN Tiny(-Sgn(x), x)
             ELSE IF r = 18 THEN Tiny(Sgn(x), x)
             ELSE SinGrid((r + 6) % 24)

\* f64::tan: near a multiple of pi, tan(k*pi + x) = x; near an odd multiple
\* of pi/2, tan(j*pi/2 + x) = -1/x, a large finite value
f64_tan(a) ==
    IF a.k # "fin" THEN NaN
    ELSE LET h == a.q % 12
             x == Offset(a)
         IN  IF h = 0 THEN Tiny(Sgn(x), x)
             ELSE IF h = 6 THEN f64_div(FromInt(-Sgn(x)), Tiny(1, x))
             ELSE IF h < 6 THEN TanTable[h]
             ELSE [TanTable[12 - h] EXCEPT !.s = -1]

----------------------------------------------------------------------------
(* sin, cos, tan *)

\* mutant: the small result is returned as computed
sin_no_snap(n, degrees) ==
    IF degrees THEN f64_sin(to_radians(n)) ELSE f64_sin(n)

sin(n, degrees) ==
    LET result == IF degrees THEN f64_sin(to_radians(n)) ELSE f64_sin(n)
    IN  IF f64_lt(f64_abs(result), EPSILON) THEN Zero ELSE result

cos(n, degrees) ==
    LET radians == IF degrees THEN to_radians(n) ELSE n
        result == f64_cos(radians)
    IN  IF f64_lt(f64_abs(result), EPSILON) THEN Zero ELSE result

\* mutant: the asymptote checks are missing
tan_no_asymptote(n, degrees) ==
    LET radians == IF degrees THEN to_radians(n) ELSE n
        result == f64_tan(radians)
    IN  IF f64_lt(f64_abs(result), EPSILON) THEN Zero ELSE result

tan(n, degrees) ==
    LET radians == IF degrees THEN to_radians(n) ELSE n
    IN  IF f64_lt(angle_abs(angle_sub(radians, HALF_PI)), EPSILON)
        THEN INFINITY
        ELSE IF f64_lt(angle_abs(angle_sub(radians, THREE_HALF_PI)), EPSILON)
        THEN NEG_INFINITY
        ELSE LET result == f64_tan(radians)
             IN  IF f64_lt(f64_abs(result), EPSILON) THEN Zero ELSE result

\* all lists of at most n elements of S
ListsUpTo(S, n) == UNION {[1..k -> S] : k \in 0..n}

----------------------------------------------------------------------------
(* The calls *)

Init ==
    /\ overflow_checks \in BOOLEAN
    /\ pc = "idle"
    /\ op = "none"
    /\ args = <<>>
    /\ ret = Value(0)

Call_sum_list ==
    /\ pc = "idle"
    /\ \E list \in ListsUpTo(Isize, MaxLen) :
            /\ pc' = "returned"
            /\ op' = "sum_list"
            /\ args' = list
            /\ ret' = sum_list(list)
            /\ UNCHANGED overflow_checks

Call_double ==
    /\ pc = "idle"
    /\ \E n \in Isize :
            /\ pc' = "returned"
            /\ op' = "double"
            /\ args' = n
            /\ ret' = double(n)
            /\ UNCHANGED overflow_checks

Call_double_list ==
    /\ pc = "idle"
    /\ \E list \in ListsUpTo(Isize, MaxLen) :
            /\ pc' = "returned"
            /\ op' = "double_list"
            /\ args' = list
            /\ ret' = double_list(list)
            /\ UNCHANGED overflow_checks

\* the f64 values handed to sin, cos and tan
AngleInputs ==
    {Angle(q, d) : q \in -QMax..QMax, d \in -DMax..DMax}
        \cup {AngleNaN, AngleInf, AngleNegInf}

\* the f64 values handed to relu
ReluInputs ==
    {Norm(s, m, e) : s \in {1, -1}, m \in 0..DMax, e \in {-12, 0}}
        \cup {NaN, INFINITY, NEG_INFINITY}

\* the f64 values handed to softmax
SoftmaxInputs == {FromInt(i) : i \in {-1000, -1, 0, 1, 2, 3, 1000}}

Call_sin ==
    /\ pc = "idle"
    /\ \E n \in AngleInputs, degrees \in BOOLEAN :
            /\ pc' = "returned"
            /\ op' = "sin"
            /\ args' = [n |-> n, degrees |-> degrees]
            /\ ret' = Value(sin(n, degrees))
            /\ UNCHANGED overflow_checks

Call_cos ==
    /\ pc = "idle"
    /\ \E n \in AngleInputs, degrees \in BOOLEAN :
            /\ pc' = "returned"
            /\ op' = "cos"
            /\ args' = [n |-> n, degrees |-> degrees]
            /\ ret' = Value(cos(n, degrees))
            /\ UNCHANGED overflow_checks

Call_tan ==
    /\ pc = "idle"
    /\ \E n \in AngleInputs, degrees \in BOOLEAN :
            /\ pc' = "returned"
            /\ op' = "tan"
            /\ args' = [n |-> n, degrees |-> degrees]
            /\ ret' = Value(tan(n, degrees))
            /\ UNCHANGED overflow_checks

Call_relu ==
    /\ pc = "idle"
    /\ \E n \in ReluInputs :
            /\ pc' = "returned"
            /\ op' = "relu"
            /\ args' = n
            /\ ret' = Value(relu(n))
            /\ UNCHANGED overflow_checks

Call_softmax ==
    /\ pc = "idle"
    /\ \E list \in ListsUpTo(SoftmaxInputs, MaxLen) :
            /\ pc' = "returned"
            /\ op' = "softmax"
            /\ args' = list
            /\ ret' = softmax(list)
            /\ UNCHANGED overflow_checks

\* the host takes the outcome; nothing of the call is retained
Return ==
    /\ pc = "returned"
    /\ pc' = "idle"
    /\ op' = "none"
    /\ args' = <<>>
    /\ ret' = Value(0)
    /\ UNCHANGED overflow_checks

Next ==
    \/ Call_sum_list
    \/ Call_double
    \/ Call_double_list
    \/ Call_sin
    \/ Call_cos
    \/ Call_tan
    \/ Call_relu
    \/ Call_softmax
    \/ Return

Spec == Init /\ [][Next]_vars

----------------------------------------------------------------------------
(* Properties of the integer family *)

\* the mathematical (unbounded) sum of a list, taken from its tail
RECURSIVE MathSum(_)
MathSum(list) ==
    IF list = <<>> THEN 0 ELSE MathSum(Tail(list)) + Head(list)

\* every partial sum of the left-to-right fold is representable
PartialSumsInRange(list) ==
    \A k \in 0..Len(list) : InRange(MathSum(SubSeq(list, 1, k)))

Reverse(list) == [i \in 1..Len(list) |-> list[Len(list) + 1 - i]]

\* C1: when every partial sum stays within the isize range, sum_list returns
\* the arithmetic sum of the elements; the empty list gives 0.
C1_SumIsArithmeticSum ==
    (pc = "returned" /\ op = "sum_list") =>
        /\ PartialSumsInRange(args) => ret = Value(MathSum(args))
        /\ args = <<>> => ret = Value(0)

C1_Witness ==
    /\ pc = "returned" /\ op = "sum_list"
    /\ args = <<3, -4, 2>>
    /\ ret = Value(1)

\* the mathematical result of the integer call lies outside the isize range
MathResultOutOfRange ==
    \/ op = "sum_list" /\ ~InRange(MathSum(args))
    \/ op = "double" /\ ~InRange(2 * args)
    \/ op = "double_list" /\ \E i \in 1..Len(args) : ~InRange(2 * args[i])

\* C2: whenever the mathematical result of sum, double or double_all is out
\* of range the call ends in an explicit overflow error and never returns a
\* (wrapped) value.
C2_OverflowIsReported ==
    (pc = "returned" /\ MathResultOutOfRange) =>
        /\ ret.kind = "panic"
        /\ ret.msg \in {AddOverflow, MulOverflow}

\* C3: when every doubled element is representable, double_list returns a
\* list of the same length whose i-th element is 2 * v[i], which is also
\* what double returns for v[i].
C3_DoubleListElementwise ==
    (/\ pc = "returned" /\ op = "double_list"
     /\ \A i \in 1..Len(args) : InRange(2 * args[i])) =>
        /\ ret.kind = "value"
        /\ Len(ret.val) = Len(args)
        /\ \A i \in 1..Len(args) :
              /\ ret.val[i] = 2 * args[i]
              /\ Value(ret.val[i]) = double(args[i])

C3_Witness ==
    /\ pc = "returned" /\ op = "double_list"
    /\ args = <<1, -2, 0>>
    /\ ret = Value(<<2, -4, 0>>)

\* C4: for every non-empty list v, sum(v) and sum(reverse(v)) have the same
\* outcome.
C4_SumOrderIndependent ==
    (pc = "returned" /\ op = "sum_list" /\ args # <<>>) =>
        ret = sum_list(Reverse(args))

----------------------------------------------------------------------------
(* Properties of tan, sin and cos *)

\* the angle the trigonometric call evaluates, in radians
RadiansOfCall == IF args.degrees THEN to_radians(args.n) ELSE args.n

\* a is within 1e-10 (ten grid steps of 1e-11) of q0 * (pi/12)
Near(a, q0) == a.k = "fin" /\ a.q = q0 /\ a.d * a.d < 10 * 10

\* a is within 1e-10 of an angle congruent to q0 * (pi/12) modulo 2 pi
NearMod2Pi(a, q0) == a.k = "fin" /\ a.q % 24 = q0 /\ a.d * a.d < 10 * 10

\* |x| < 1e-10 for a finite x, read off the normalised representation
BelowEpsilon(x) == x.k = "fin" /\ (x.m = 0 \/ x.e < -10 - (Digits - 1))

\* C5: tan returns +inf for an angle within epsilon of pi/2 and -inf for one
\* within epsilon of 3pi/2, in radians and in degrees mode, whatever the
\* native tangent is there; tan(pi/2), tan(90 deg) are +inf and tan(3pi/2),
\* tan(270 deg) are -inf.
C5_TanAsymptotes ==
    (pc = "returned" /\ op = "tan") =>
        /\ Near(RadiansOfCall, 6) => ret = Value(INFINITY)
        /\ Near(RadiansOfCall, 18) => ret = Value(NEG_INFINITY)
        /\ args.n = Angle(6, 0) => ret = Value(INFINITY)
        /\ args.n = Angle(18, 0) => ret = Value(NEG_INFINITY)

C5_Witness ==
    /\ pc = "returned" /\ op = "tan"
    /\ args = [n |-> Angle(18, 0), degrees |-> TRUE]
    /\ f64_tan(to_radians(args.n)).k = "fin"
    /\ ret = Value(NEG_INFINITY)

\* C6: tan returns +inf for every angle congruent to pi/2 modulo 2 pi within
\* epsilon and -inf for every angle congruent to 3pi/2 modulo 2 pi within
\* epsilon.
C6_TanAsymptotesMod2Pi ==
    (pc = "returned" /\ op = "tan") =>
        /\ NearMod2Pi(RadiansOfCall, 6) => ret = Value(INFINITY)
        /\ NearMod2Pi(RadiansOfCall, 18) => ret = Value(NEG_INFINITY)

\* the native result of the trigonometric call
NativeOfCall ==
    CASE op = "sin" -> f64_sin(RadiansOfCall)
      [] op = "cos" -> f64_cos(RadiansOfCall)
      [] op = "tan" -> f64_tan(RadiansOfCall)

\* tan leaves through an asymptote branch and evaluates no native tangent
AsymptoteBranch ==
    op = "tan" /\ (Near(RadiansOfCall, 6) \/ Near(RadiansOfCall, 18))

\* C7: sin, cos and tan never return a non-zero value of absolute value below
\* 1e-10: a native result below epsilon is replaced by exactly 0.0, any other
\* native result is returned unchanged.
C7_NearZeroSnapped ==
    (pc = "returned" /\ op \in {"sin", "cos", "tan"}) =>
        /\ ret.kind = "value"
        /\ ~(BelowEpsilon(ret.val) /\ ret.val.m # 0)
        /\ ~AsymptoteBranch =>
              IF BelowEpsilon(NativeOfCall)
              THEN ret.val = Zero
              ELSE ret.val = NativeOfCall

C7_Witness ==
    /\ pc = "returned" /\ op = "sin"
    /\ args = [n |-> Angle(12, 0), degrees |-> FALSE]
    /\ NativeOfCall.m # 0
    /\ BelowEpsilon(NativeOfCall)
    /\ ret = Value(Zero)

----------------------------------------------------------------------------
(* Properties of softmax and relu *)

\* C8: softmax of the empty list fails with EmptyInputError and returns no
\* value.
C8_SoftmaxEmptyFails ==
    (pc = "returned" /\ op = "softmax" /\ args = <<>>) =>
        /\ ret.kind # "value"
        /\ ret.msg = "EmptyInputError"

\* C9: for every non-empty list v, softmax(v) has the length and order of v,
\* every element lies strictly within (0, 1), and the elements sum to 1.0
\* within 1e-6.
C9_SoftmaxDistribution ==
    (pc = "returned" /\ op = "softmax" /\ args # <<>>) =>
        /\ ret.kind = "value"
        /\ Len(ret.val) = Len(args)
        /\ \A i \in 1..Len(args) :
              /\ f64_lt(Zero, ret.val[i])
              /\ f64_lt(ret.val[i], One)
        /\ \A i, j \in 1..Len(args) :
              f64_lt(args[i], args[j]) => ~f64_lt(ret.val[j], ret.val[i])
        /\ LET total == f64_iter_sum(ret.val, 1, Zero)
           IN  /\ f64_lt(Norm(1, 999999, -6), total)
               /\ f64_lt(total, Norm(1, 1000001, -6))

\* n > 0, n <= 0 and n < 0 read off the representation
Positive(x) == ~IsNaN(x) /\ x.s = 1 /\ ~IsZero(x)
Negative(x) == ~IsNaN(x) /\ x.s = -1 /\ ~IsZero(x)
NonPositive(x) == Negative(x) \/ IsZero(x)

\* C10: relu returns n unchanged for n > 0 and 0.0 for n <= 0; its result is
\* never negative, and relu applied to its result gives the same result.
C10_Relu ==
    (pc = "returned" /\ op = "relu") =>
        /\ ret.kind = "value"
        /\ Positive(args) => ret.val = args
        /\ NonPositive(args) => ret.val = Zero
        /\ ~Negative(ret.val)
        /\ relu(ret.val) = ret.val

C10_Witness ==
    /\ pc = "returned" /\ op = "relu"
    /\ args = FromInt(-2)
    /\ ret = Value(Zero)

====
